---- MODULE Spec2Model ----
(***************************************************************************)
(* A model of src/main/scripts/plot_benchmarks.py: the benchmark file      *)
(* parser (parse_file), the threaded series extractor                      *)
(* (extract_arrays_threaded), the chart renderer (plot_threaded) and the   *)
(* driver with its three report sections.                                  *)
(*                                                                         *)
(* Text is modelled as sequences of one-character strings, so that strip,  *)
(* split, slicing and substring tests are computed as Python computes      *)
(* them.  Floats are modelled as exact reduced fractions plus one NaN;     *)
(* rounding is not modelled.                                               *)
(***************************************************************************)
EXTENDS Integers, Sequences, FiniteSets, TLC

VARIABLES dir, fs, pc, section, listf, todo, f, fin, line, d,
          tx, ty, tsdev, x, y, sdev, x2, y2, sdev2,
          readstore_files, readstore_contig_files,
          handles, images, err

vars == <<dir, fs, pc, section, listf, todo, f, fin, line, d,
          tx, ty, tsdev, x, y, sdev, x2, y2, sdev2,
          readstore_files, readstore_contig_files,
          handles, images, err>>

\* The largest number of files the benchmark directory holds.
MaxFiles == 3

(***************************************************************************)
(* Python string operations.                                               *)
(***************************************************************************)

\* The characters str.strip() removes (those that occur in the inputs).
Whitespace == {" ", "\t", "\n"}

Colon == ":"

RECURSIVE LStrip(_)
\* str.lstrip(): drop the leading whitespace.
LStrip(s) ==
    IF s # <<>> /\ Head(s) \in Whitespace THEN LStrip(Tail(s)) ELSE s

RECURSIVE RStrip(_)
\* str.rstrip(): drop the trailing whitespace.
RStrip(s) ==
    IF s # <<>> /\ s[Len(s)] \in Whitespace
    THEN RStrip(SubSeq(s, 1, Len(s) - 1))
    ELSE s

\* str.strip().
Strip(s) == RStrip(LStrip(s))

RECURSIVE SplitFrom(_, _, _)
\* The fields of s from position i on, cur being the field read so far.
SplitFrom(s, i, cur) ==
    IF i > Len(s) THEN <<cur>>
    ELSE IF s[i] = Colon THEN <<cur>> \o SplitFrom(s, i + 1, <<>>)
    ELSE SplitFrom(s, i + 1, Append(cur, s[i]))

\* str.split(":"): every colon separates two fields; "" gives one empty field.
Split(s) == SplitFrom(s, 1, <<>>)

\* s[:-2]: all but the last two characters (empty when there are fewer).
DropLast2(s) == SubSeq(s, 1, Len(s) - 2)

\* `sub in s` for strings.
Contains(s, sub) ==
    \E i \in 0..(Len(s) - Len(sub)) : SubSeq(s, i + 1, i + Len(sub)) = sub

StartsWith(s, p) == Len(s) >= Len(p) /\ SubSeq(s, 1, Len(p)) = p

EndsWith(s, p) ==
    Len(s) >= Len(p) /\ SubSeq(s, Len(s) - Len(p) + 1, Len(s)) = p

(***************************************************************************)
(* Numbers.  A float is [nan, n, d]: NaN, or the fraction n/d in lowest    *)
(* terms with d > 0.  An int is a TLA+ integer.                            *)
(***************************************************************************)

Digits == {"0", "1", "2", "3", "4", "5", "6", "7", "8", "9"}

DigitVal(c) ==
    CASE c = "0" -> 0 [] c = "1" -> 1 [] c = "2" -> 2 [] c = "3" -> 3
      [] c = "4" -> 4 [] c = "5" -> 5 [] c = "6" -> 6 [] c = "7" -> 7
      [] c = "8" -> 8 [] c = "9" -> 9

AllDigits(s) == \A i \in 1..Len(s) : s[i] \in Digits

RECURSIVE DecVal(_)
\* The value of a string of decimal digits (0 for the empty string).
DecVal(s) ==
    IF s = <<>> THEN 0
    ELSE 10 * DecVal(SubSeq(s, 1, Len(s) - 1)) + DigitVal(s[Len(s)])

RECURSIVE Pow10(_)
Pow10(k) == IF k = 0 THEN 1 ELSE 10 * Pow10(k - 1)

Abs(a) == IF a < 0 THEN -a ELSE a

RECURSIVE Gcd(_, _)
Gcd(a, b) == IF b = 0 THEN a ELSE Gcd(b, a % b)

NaN == [nan |-> TRUE, n |-> 0, d |-> 1]

\* The float n/d (d # 0), in lowest terms with a positive denominator.
Frac(n, dd) ==
    LET g == Gcd(Abs(n), Abs(dd))
        sg == IF dd < 0 THEN -1 ELSE 1
    IN  [nan |-> FALSE, n |-> sg * (n \div g), d |-> sg * (dd \div g)]

\* math.isnan
IsNan(v) == v.nan

\* The position of the first "." of s, or 0.
DotPos(s) ==
    IF \E i \in 1..Len(s) : s[i] = "."
    THEN CHOOSE i \in 1..Len(s) : s[i] = "." /\ \A j \in 1..(i - 1) : s[j] # "."
    ELSE 0

\* An unsigned decimal literal: digits, digits.digits, digits. or .digits
UnsignedFloat(s) ==
    LET p == DotPos(s)
        ip == IF p = 0 THEN s ELSE SubSeq(s, 1, p - 1)
        fp == IF p = 0 THEN <<>> ELSE SubSeq(s, p + 1, Len(s))
    IN  IF AllDigits(ip) /\ AllDigits(fp) /\ Len(ip) + Len(fp) > 0
        THEN [ok |-> TRUE,
              v |-> Frac(DecVal(ip) * Pow10(Len(fp)) + DecVal(fp), Pow10(Len(fp)))]
        ELSE [ok |-> FALSE, v |-> NaN]

\* float(s) of a string: [ok, v]; ok = FALSE is Python's ValueError.  The
\* literals covered are an optional sign followed by a decimal number or by
\* nan; exponents, inf and inner whitespace do not occur in the inputs.
ParseFloat(s) ==
    LET neg == s # <<>> /\ Head(s) = "-"
        body == IF s # <<>> /\ Head(s) \in {"-", "+"} THEN Tail(s) ELSE s
        u == UnsignedFloat(body)
    IN  IF body \in {<<"n", "a", "n">>, <<"N", "a", "N">>}
        THEN [ok |-> TRUE, v |-> NaN]
        ELSE IF u.ok /\ neg THEN [ok |-> TRUE, v |-> Frac(-u.v.n, u.v.d)]
        ELSE u

\* int(s) of a string: [ok, v]; ok = FALSE is Python's ValueError.
ParseInt(s) ==
    LET neg == s # <<>> /\ Head(s) = "-"
        body == IF s # <<>> /\ Head(s) \in {"-", "+"} THEN Tail(s) ELSE s
    IN  IF body # <<>> /\ AllDigits(body)
        THEN [ok |-> TRUE, v |-> IF neg THEN -DecVal(body) ELSE DecVal(body)]
        ELSE [ok |-> FALSE, v |-> 0]

\* float / int for a non-zero int.
FloatDiv(v, k) == IF v.nan THEN NaN ELSE Frac(v.n, v.d * k)

\* float * int
FloatMul(v, k) == IF v.nan THEN NaN ELSE Frac(v.n * k, v.d)

(***************************************************************************)
(* The text constants of the script.                                       *)
(***************************************************************************)

K_numThreads ==
    <<"n", "u", "m", "T", "h", "r", "e", "a", "d", "s">>

K_Mean ==
    <<"M", "e", "a", "n">>

K_MeanThread ==
    <<"M", "e", "a", "n", "/", "t", "h", "r", "e", "a", "d">>

K_Sdev ==
    <<"S", "d", "e", "v">>

K_maxVariantResults ==
    <<"m", "a", "x", "V", "a", "r", "i", "a", "n", "t", "R", "e", "s", "u",
      "l", "t", "s">>

S_png ==
    <<"p", "n", "g">>

S_Contig ==
    <<"C", "o", "n", "t", "i", "g">>

Pat_varstore ==
    <<"v", "a", "r", "s", "t", "o", "r", "e">>

Pat_K ==
    <<"K">>

Pat_varstore10K ==
    <<"v", "a", "r", "s", "t", "o", "r", "e", "1", "0", "K">>

Pat_readstore ==
    <<"r", "e", "a", "d", "s", "t", "o", "r", "e">>

Sep ==
    <<"/">>

\* The three images the driver writes, in the order of its sections.
Img_varstoreMaxResults == "varstoreMaxResults.png"

Img_varstoreThreaded == "varstoreThreaded.png"

Img_readstoreThreaded == "readstoreThreaded.png"

(***************************************************************************)
(* parse_file.  A dict is a function from keys to values.                  *)
(***************************************************************************)

EmptyDict == [k \in {} |-> <<>>]

Has(dict, k) == k \in DOMAIN dict

\* d.update([(key, val)]): the last occurrence of a key wins.
Update(dict, k, v) ==
    [kk \in (DOMAIN dict) \cup {k} |-> IF kk = k THEN v ELSE dict[kk]]

\* Fault variant of ParseLine: a line without a colon is taken as a key with
\* an empty value instead of raising.
ParseLineLenient(l) ==
    LET parts == Split(Strip(l))
    IN  IF Len(parts) = 2
        THEN [ok |-> TRUE, key |-> Strip(parts[1]), val |-> Strip(parts[2])]
        ELSE IF Len(parts) = 1
        THEN [ok |-> TRUE, key |-> Strip(parts[1]), val |-> <<>>]
        ELSE [ok |-> FALSE, key |-> <<>>, val |-> <<>>]

\* Lines 30-31: key, val = line.strip().split(":"), both stripped.  The
\* unpacking needs exactly two fields; anything else is a ValueError.
ParseLine(l) ==
    LET parts == Split(Strip(l))
    IN  IF Len(parts) = 2
        THEN [ok |-> TRUE, key |-> Strip(parts[1]), val |-> Strip(parts[2])]
        ELSE [ok |-> FALSE, key |-> <<>>, val |-> <<>>]

RECURSIVE ParseLines(_, _)
\* The loop of lines 29-32 over the remaining lines, from dict on.
ParseLines(lines, dict) ==
    IF lines = <<>> THEN [ok |-> TRUE, d |-> dict]
    ELSE LET p == ParseLine(Head(lines))
         IN  IF p.ok THEN ParseLines(Tail(lines), Update(dict, p.key, p.val))
             ELSE [ok |-> FALSE, d |-> dict]

\* parse_file on a file's lines: [ok, d]; ok = FALSE is the ValueError.
ParseFile(lines) == ParseLines(lines, EmptyDict)

(***************************************************************************)
(* The rows the two loops append.  A row is [ok, kind, x, y, sdev]; with   *)
(* ok = FALSE, kind names the exception the statement raises.              *)
(***************************************************************************)

RowError(kind) == [ok |-> FALSE, kind |-> kind, x |-> 0, y |-> NaN, sdev |-> NaN]

RowOk(xx, yy, ss) == [ok |-> TRUE, kind |-> "none", x |-> xx, y |-> yy, sdev |-> ss]

\* int(parsedDict.get('numThreads', 1))
NumThreads(dict) ==
    IF Has(dict, K_numThreads) THEN ParseInt(dict[K_numThreads])
    ELSE [ok |-> TRUE, v |-> 1]

\* Fault variant of RowThreaded: Sdev is not divided by the thread count.
RowThreadedUnscaled(dict) ==
    LET nt == NumThreads(dict)
        src == IF Has(dict, K_MeanThread) THEN dict[K_MeanThread] ELSE dict[K_Mean]
        yy == ParseFloat(DropLast2(src))
        ss == ParseFloat(DropLast2(dict[K_Sdev]))
    IN  IF ~nt.ok THEN RowError("ValueError")
        ELSE IF ~Has(dict, K_Mean) THEN RowError("KeyError")
        ELSE IF ~yy.ok THEN RowError("ValueError")
        ELSE IF ~Has(dict, K_Sdev) THEN RowError("KeyError")
        ELSE IF ~ss.ok THEN RowError("ValueError")
        ELSE IF nt.v = 0 THEN RowError("ZeroDivisionError")
        ELSE RowOk(nt.v, yy.v, ss.v)

\* Lines 39-42, in the order Python evaluates them.  The default argument
\* parsedDict['Mean'] of line 40 is evaluated before get() is called.
RowThreaded(dict) ==
    LET nt == NumThreads(dict)
        src == IF Has(dict, K_MeanThread) THEN dict[K_MeanThread] ELSE dict[K_Mean]
        yy == ParseFloat(DropLast2(src))
        ss == ParseFloat(DropLast2(dict[K_Sdev]))
    IN  IF ~nt.ok THEN RowError("ValueError")
        ELSE IF ~Has(dict, K_Mean) THEN RowError("KeyError")
        ELSE IF ~yy.ok THEN RowError("ValueError")
        ELSE IF ~Has(dict, K_Sdev) THEN RowError("KeyError")
        ELSE IF ~ss.ok THEN RowError("ValueError")
        ELSE IF nt.v = 0 THEN RowError("ZeroDivisionError")
        ELSE RowOk(nt.v, yy.v, FloatDiv(ss.v, nt.v))

\* Lines 75-77.
RowMaxResults(dict) ==
    LET xx == ParseInt(dict[K_maxVariantResults])
        yy == ParseFloat(DropLast2(dict[K_Mean]))
        ss == ParseFloat(DropLast2(dict[K_Sdev]))
    IN  IF ~Has(dict, K_maxVariantResults) THEN RowError("KeyError")
        ELSE IF ~xx.ok THEN RowError("ValueError")
        ELSE IF ~Has(dict, K_Mean) THEN RowError("KeyError")
        ELSE IF ~yy.ok THEN RowError("ValueError")
        ELSE IF ~Has(dict, K_Sdev) THEN RowError("KeyError")
        ELSE IF ~ss.ok THEN RowError("ValueError")
        ELSE RowOk(xx.v, yy.v, ss.v)

(***************************************************************************)
(* Line 44 and lines 45, 79 on three aligned sequences [x, y, sdev].       *)
(***************************************************************************)

Triple(xs, ys, ss) == [x |-> xs, y |-> ys, sdev |-> ss]

\* Fault variant of FilterNaN: no row is dropped.
FilterNone(t) == t

RECURSIVE FilterNaN(_)
\* Line 44: the rows whose y is not NaN, in order.
FilterNaN(t) ==
    IF t.x = <<>> THEN t
    ELSE LET rest == FilterNaN(Triple(Tail(t.x), Tail(t.y), Tail(t.sdev)))
         IN  IF IsNan(Head(t.y)) THEN rest
             ELSE Triple(<<Head(t.x)>> \o rest.x, <<Head(t.y)>> \o rest.y,
                         <<Head(t.sdev)>> \o rest.sdev)

RECURSIVE InsertRow(_, _, _, _)
\* Row (a, b, c) placed after every row of the sorted t whose x is <= a.
InsertRow(t, a, b, c) ==
    IF t.x = <<>> \/ a < Head(t.x)
    THEN Triple(<<a>> \o t.x, <<b>> \o t.y, <<c>> \o t.sdev)
    ELSE LET rest == InsertRow(Triple(Tail(t.x), Tail(t.y), Tail(t.sdev)), a, b, c)
         IN  Triple(<<Head(t.x)>> \o rest.x, <<Head(t.y)>> \o rest.y,
                    <<Head(t.sdev)>> \o rest.sdev)

RECURSIVE InsertRowBefore(_, _, _, _)
\* Row (a, b, c) placed before the first row of the sorted t whose x is >= a.
InsertRowBefore(t, a, b, c) ==
    IF t.x = <<>> \/ a <= Head(t.x)
    THEN Triple(<<a>> \o t.x, <<b>> \o t.y, <<c>> \o t.sdev)
    ELSE LET rest == InsertRowBefore(Triple(Tail(t.x), Tail(t.y), Tail(t.sdev)),
                                     a, b, c)
         IN  Triple(<<Head(t.x)>> \o rest.x, <<Head(t.y)>> \o rest.y,
                    <<Head(t.sdev)>> \o rest.sdev)

RECURSIVE SortRowsUnstable(_)
\* Fault variant of SortRows: a sort by x that reverses rows of equal x.
SortRowsUnstable(t) ==
    IF t.x = <<>> THEN t
    ELSE LET n == Len(t.x)
             front == SortRowsUnstable(Triple(SubSeq(t.x, 1, n - 1),
                                              SubSeq(t.y, 1, n - 1),
                                              SubSeq(t.sdev, 1, n - 1)))
         IN  InsertRowBefore(front, t.x[n], t.y[n], t.sdev[n])

RECURSIVE SortRows(_)
\* sorted(zip(x, y, sdev), key = itemgetter(0)): a stable sort by x alone.
SortRows(t) ==
    IF t.x = <<>> THEN t
    ELSE LET n == Len(t.x)
             front == SortRows(Triple(SubSeq(t.x, 1, n - 1), SubSeq(t.y, 1, n - 1),
                                      SubSeq(t.sdev, 1, n - 1)))
         IN  InsertRow(front, t.x[n], t.y[n], t.sdev[n])

(***************************************************************************)
(* The inputs: the --dir argument and the files of that directory.  A file *)
(* is the sequence of its lines, each with its line terminator.            *)
(***************************************************************************)

Dir_plain ==
    <<"/", "b", "e", "n", "c", "h">>

Dir_png ==
    <<"/", "p", "n", "g">>

Dir_Contig ==
    <<"/", "C", "o", "n", "t", "i", "g">>

Dirs == {Dir_plain, Dir_png, Dir_Contig}

N_varstore5K ==
    <<"v", "a", "r", "s", "t", "o", "r", "e", "5", "K">>

N_varstore20K ==
    <<"v", "a", "r", "s", "t", "o", "r", "e", "2", "0", "K">>

N_varstore10K ==
    <<"v", "a", "r", "s", "t", "o", "r", "e", "1", "0", "K">>

N_varstore10Kb ==
    <<"v", "a", "r", "s", "t", "o", "r", "e", "1", "0", "K", "b">>

N_varstore10Kc ==
    <<"v", "a", "r", "s", "t", "o", "r", "e", "1", "0", "K", "c">>

N_readstore1 ==
    <<"r", "e", "a", "d", "s", "t", "o", "r", "e", "1">>

N_readstore2 ==
    <<"r", "e", "a", "d", "s", "t", "o", "r", "e", "2">>

N_readstoreContig ==
    <<"r", "e", "a", "d", "s", "t", "o", "r", "e", "C", "o", "n", "t", "i",
      "g">>

N_readstorePng ==
    <<"r", "e", "a", "d", "s", "t", "o", "r", "e", "T", "h", "r", "e", "a",
      "d", "e", "d", ".", "p", "n", "g">>

L_nt1 ==
    <<"n", "u", "m", "T", "h", "r", "e", "a", "d", "s", ":", " ", "1", "\n">>

L_nt2 ==
    <<"n", "u", "m", "T", "h", "r", "e", "a", "d", "s", ":", " ", "2", "\n">>

L_nt4 ==
    <<"n", "u", "m", "T", "h", "r", "e", "a", "d", "s", ":", " ", "4", "\n">>

L_max5000 ==
    <<"m", "a", "x", "V", "a", "r", "i", "a", "n", "t", "R", "e", "s", "u",
      "l", "t", "s", ":", " ", "5", "0", "0", "0", "\n">>

L_max20000 ==
    <<"m", "a", "x", "V", "a", "r", "i", "a", "n", "t", "R", "e", "s", "u",
      "l", "t", "s", ":", " ", "2", "0", "0", "0", "0", "\n">>

L_mean12 ==
    <<"M", "e", "a", "n", ":", " ", "1", "2", ".", "0", "m", "s", "\n">>

L_mean30 ==
    <<"M", "e", "a", "n", ":", " ", "3", "0", ".", "0", "m", "s", "\n">>

L_mean6 ==
    <<"M", "e", "a", "n", ":", " ", "6", ".", "0", "m", "s", "\n">>

L_mean9 ==
    <<" ", "M", "e", "a", "n", " ", ":", " ", "9", ".", "0", "m", "s", "\n">>

L_meanNan ==
    <<"M", "e", "a", "n", ":", " ", "n", "a", "n", "m", "s", "\n">>

L_mt8 ==
    <<"M", "e", "a", "n", "/", "t", "h", "r", "e", "a", "d", ":", " ", "8",
      ".", "0", "m", "s", "\n">>

L_mt3 ==
    <<"M", "e", "a", "n", "/", "t", "h", "r", "e", "a", "d", ":", " ", "3",
      ".", "0", "m", "s", "\n">>

L_sdev0 ==
    <<"S", "d", "e", "v", ":", " ", "0", ".", "0", "m", "s", "\n">>

L_sdev1 ==
    <<"S", "d", "e", "v", ":", " ", "1", ".", "0", "m", "s", "\n">>

L_sdev2 ==
    <<"S", "d", "e", "v", ":", " ", "2", ".", "0", "m", "s", "\n">>

L_sdev4 ==
    <<"S", "d", "e", "v", ":", " ", "4", ".", "0", "m", "s", "\n">>

L_garbage ==
    <<"g", "a", "r", "b", "a", "g", "e", "\n">>

L_blank ==
    <<"\n">>

L_time ==
    <<"T", "i", "m", "e", ":", " ", "1", "2", ":", "3", "0", "\n">>

\* The first scenario file of the max-results sweep; threaded: x=1, y=12, err=1.
F_G5 == <<L_max5000, L_mean12, L_sdev1>>

\* The second scenario file of the max-results sweep; threaded: x=2, y=30, err=1.
F_G20 == <<L_nt2, L_max20000, L_mean30, L_sdev2>>

\* The threaded scenario file: Mean/thread but no Mean.
F_T4 == <<L_nt4, L_mt8, L_sdev4>>

\* Mean and Mean/thread; x=2, y=3, err=2.
F_T2 == <<L_nt2, L_mean6, L_mt3, L_sdev4>>

\* The raw Sdev of F_T2 at another thread count; x=4, y=9, err=1.
F_T4m == <<L_nt4, L_mean9, L_sdev4>>

\* No numThreads, Sdev zero; x=1, y=6, err=0.
F_Z1 == <<L_mean6, L_sdev0>>

\* Sdev zero at two threads; x=2, y=12, err=0.
F_Z2 == <<L_nt2, L_mean12, L_sdev0>>

\* y is not-a-number.
F_NaN2 == <<L_nt2, L_meanNan, L_sdev4>>

\* A complete record with one more line that has no colon.
F_Bad == <<L_max5000, L_mean6, L_garbage, L_sdev1>>

\* A complete record with a blank line.
F_Blank == <<L_max5000, L_blank, L_mean6, L_sdev1>>

\* A complete record with one more line that has two colons.
F_TwoColon == <<L_max5000, L_mean6, L_sdev1, L_time>>

\* An image left by an earlier run.
F_Png == <<L_garbage>>

\* The (name, content) pairs a directory is drawn from.
Catalog ==
    { <<N_varstore5K, F_G5>>, <<N_varstore5K, F_Bad>>, <<N_varstore20K, F_G20>>,
      <<N_varstore10K, F_G20>>, <<N_varstore10K, F_G5>>,
      <<N_varstore10Kb, F_T2>>, <<N_varstore10Kb, F_T4>>, <<N_varstore10Kb, F_Bad>>,
      <<N_varstore10Kb, F_NaN2>>,
      <<N_varstore10Kc, F_T4m>>, <<N_varstore10Kc, F_Blank>>, <<N_varstore10Kc, F_Z1>>,
      <<N_readstore1, F_Z1>>, <<N_readstore1, F_T2>>, <<N_readstore1, F_Bad>>,
      <<N_readstore1, F_TwoColon>>,
      <<N_readstore2, F_Z2>>, <<N_readstore2, F_NaN2>>, <<N_readstore2, F_T4m>>,
      <<N_readstoreContig, F_T2>>, <<N_readstoreContig, F_Bad>>,
      <<N_readstoreContig, F_T4>>,
      <<N_readstorePng, F_Png>> }

RECURSIVE CatalogSubsets(_)
\* The subsets of Catalog of at most k pairs.
CatalogSubsets(k) ==
    IF k = 0 THEN {{}}
    ELSE LET prev == CatalogSubsets(k - 1)
         IN  prev \cup {s \cup {e} : s \in prev, e \in Catalog}

\* The directories: at most MaxFiles files, no name twice.
Directories ==
    { [n \in {e[1] : e \in s} |-> (CHOOSE e \in s : e[1] = n)[2]] :
        s \in {t \in CatalogSubsets(MaxFiles) :
                 \A a, b \in t : a[1] = b[1] => a = b} }

\* The orders in which a set can be listed or iterated.
Perms(S) ==
    {p \in [1..Cardinality(S) -> S] : \A i, j \in DOMAIN p : p[i] = p[j] => i = j}

(***************************************************************************)
(* glob.glob(args.dir + "/" + pattern) and open().                         *)
(***************************************************************************)

\* fnmatch of a name against varstore*K
MatchVarstoreK(n) ==
    /\ Len(n) >= Len(Pat_varstore) + Len(Pat_K)
    /\ StartsWith(n, Pat_varstore)
    /\ EndsWith(n, Pat_K)

\* fnmatch of a name against varstore10K*
MatchVarstore10K(n) == StartsWith(n, Pat_varstore10K)

\* fnmatch of a name against readstore*
MatchReadstore(n) == StartsWith(n, Pat_readstore)

PathOf(n) == dir \o Sep \o n

NameOf(p) == SubSeq(p, Len(dir) + Len(Sep) + 1, Len(p))

\* The paths of the directory's names in the set matching, as glob returns
\* them; a set, glob's order being the directory's.
GlobPaths(matching) == {PathOf(n) : n \in (DOMAIN fs) \cap matching}

\* glob.glob(args.dir + "/varstore*K")
GlobVarstoreK == GlobPaths({n \in DOMAIN fs : MatchVarstoreK(n)})

\* glob.glob(args.dir + "/varstore10K*")
GlobVarstore10K == GlobPaths({n \in DOMAIN fs : MatchVarstore10K(n)})

\* glob.glob(args.dir + "/readstore*")
GlobReadstoreAll == GlobPaths({n \in DOMAIN fs : MatchReadstore(n)})

\* The lines of the file at path p.
Lines(p) == fs[NameOf(p)]

(***************************************************************************)
(* The run.  pc is the driver's position; section is the loop being run:   *)
(* "max" (lines 72-79) or a call of extract_arrays_threaded on "varstore"  *)
(* (line 93), "random" (line 102) or "contig" (line 103).                  *)
(***************************************************************************)

NoError == [kind |-> "none", at |-> "none"]

Init ==
    /\ dir \in Dirs
    /\ fs \in Directories
    /\ pc = "start"
    /\ section = "none"
    /\ listf = <<>>
    /\ todo = <<>>
    /\ f = <<>>
    /\ fin = <<>>
    /\ line = <<>>
    /\ d = EmptyDict
    /\ tx = <<>> /\ ty = <<>> /\ tsdev = <<>>
    /\ x = <<>> /\ y = <<>> /\ sdev = <<>>
    /\ x2 = <<>> /\ y2 = <<>> /\ sdev2 = <<>>
    /\ readstore_files = {}
    /\ readstore_contig_files = <<>>
    /\ handles = {}
    /\ images = <<>>
    /\ err = NoError

envVars == <<dir, fs>>

parseVars == <<f, fin, line, d, handles>>

localVars == <<tx, ty, tsdev>>

resultVars == <<x, y, sdev>>

result2Vars == <<x2, y2, sdev2>>

rsVars == <<readstore_files, readstore_contig_files>>

\* Fault variant of Raise: the exception is caught at the end of its report
\* section and the next section runs.
RaiseIsolated(kind, at) ==
    /\ pc' = CASE section = "max" -> "call_varstore"
               [] section = "varstore" -> "glob_readstore"
               [] OTHER -> "done"
    /\ err' = [kind |-> kind, at |-> at]

\* An exception nothing catches: the run ends where it is raised.
Raise(kind, at) ==
    /\ pc' = "aborted"
    /\ err' = [kind |-> kind, at |-> at]

\* Fault variant of WithExit: the file is read without a with block and is
\* never closed.
WithExitLeak(hs, p) == hs

\* The exit of `with open(f) as fin`: the handle is closed, on return and
\* on an exception alike.
WithExit(hs, p) == hs \ {p}

\* plt.savefig(os.path.join(args.dir, figfile))
SaveFig(figfile) == images' = Append(images, figfile)

\* Lines 72-73: the max-results loop starts over glob's list.
StartMaxResults ==
    /\ pc = "start"
    /\ \E order \in Perms(GlobVarstoreK) :
          /\ listf' = order
          /\ todo' = order
    /\ x' = <<>> /\ y' = <<>> /\ sdev' = <<>>
    /\ section' = "max"
    /\ pc' = "loop"
    /\ UNCHANGED <<envVars, parseVars, localVars, result2Vars, rsVars, images, err>>

\* Lines 37-38 / 73-74 and 27-28: the next file of the loop is opened.
OpenFile ==
    /\ pc = "loop"
    /\ todo # <<>>
    /\ f' = Head(todo)
    /\ todo' = Tail(todo)
    /\ d' = EmptyDict
    /\ handles' = handles \cup {Head(todo)}
    /\ fin' = Lines(Head(todo))
    /\ pc' = "read"
    /\ UNCHANGED <<envVars, section, listf, line, localVars, resultVars,
                   result2Vars, rsVars, images, err>>

\* Lines 29-32: one line is read and split; a line that does not split in
\* two raises ValueError, and the with block closes the file on the way out.
ReadLine ==
    /\ pc = "read"
    /\ fin # <<>>
    /\ line' = Head(fin)
    /\ fin' = Tail(fin)
    /\ LET p == ParseLine(Head(fin))
       IN  IF p.ok
           THEN /\ d' = Update(d, p.key, p.val)
                /\ UNCHANGED <<pc, err, handles>>
           ELSE /\ Raise("ValueError", "parse_file")
                /\ handles' = WithExit(handles, f)
                /\ UNCHANGED d
    /\ UNCHANGED <<envVars, section, listf, todo, f, localVars, resultVars,
                   result2Vars, rsVars, images>>

\* Lines 28, 33: the file is exhausted, the with block closes it, d returns.
CloseFile ==
    /\ pc = "read"
    /\ fin = <<>>
    /\ handles' = WithExit(handles, f)
    /\ pc' = "row"
    /\ UNCHANGED <<envVars, section, listf, todo, f, fin, line, d, localVars,
                   resultVars, result2Vars, rsVars, images, err>>

\* Lines 75-77.
AppendRowMaxResults ==
    /\ pc = "row"
    /\ section = "max"
    /\ LET r == RowMaxResults(d)
       IN  IF r.ok
           THEN /\ x' = Append(x, r.x)
                /\ y' = Append(y, r.y)
                /\ sdev' = Append(sdev, r.sdev)
                /\ pc' = "loop"
                /\ UNCHANGED err
           ELSE /\ Raise(r.kind, "row")
                /\ UNCHANGED resultVars
    /\ UNCHANGED <<envVars, section, listf, todo, parseVars, localVars,
                   result2Vars, rsVars, images>>

\* Lines 39-42.
AppendRowThreaded ==
    /\ pc = "row"
    /\ section # "max"
    /\ LET r == RowThreaded(d)
       IN  IF r.ok
           THEN /\ tx' = Append(tx, r.x)
                /\ ty' = Append(ty, r.y)
                /\ tsdev' = Append(tsdev, r.sdev)
                /\ pc' = "loop"
                /\ UNCHANGED err
           ELSE /\ Raise(r.kind, "row")
                /\ UNCHANGED localVars
    /\ UNCHANGED <<envVars, section, listf, todo, parseVars, resultVars,
                   result2Vars, rsVars, images>>

\* Line 79: zip(*sorted(...)) unpacked into three names; no rows, no unpacking.
SortMaxResults ==
    /\ pc = "loop"
    /\ todo = <<>>
    /\ section = "max"
    /\ IF x = <<>>
       THEN /\ Raise("ValueError", "zip")
            /\ UNCHANGED resultVars
       ELSE LET s == SortRows(Triple(x, y, sdev))
            IN  /\ x' = s.x /\ y' = s.y /\ sdev' = s.sdev
                /\ pc' = "plot_max"
                /\ UNCHANGED err
    /\ UNCHANGED <<envVars, section, listf, todo, parseVars, localVars,
                   result2Vars, rsVars, images>>

\* Lines 81-89.
PlotMaxResults ==
    /\ pc = "plot_max"
    /\ SaveFig(Img_varstoreMaxResults)
    /\ pc' = "call_varstore"
    /\ UNCHANGED <<envVars, section, listf, todo, parseVars, localVars,
                   resultVars, result2Vars, rsVars, err>>

\* extract_arrays_threaded is entered with the list fl (lines 35-37).
Enter(sec, fl) ==
    /\ section' = sec
    /\ listf' = fl
    /\ todo' = fl
    /\ tx' = <<>> /\ ty' = <<>> /\ tsdev' = <<>>
    /\ pc' = "loop"

\* Line 93: the call on glob's list of varstore10K*.
CallThreadedVarstore ==
    /\ pc = "call_varstore"
    /\ \E order \in Perms(GlobVarstore10K) : Enter("varstore", order)
    /\ UNCHANGED <<envVars, parseVars, resultVars, result2Vars, rsVars, images, err>>

\* Line 44: the rows with a NaN y are dropped; unpacking no rows fails.
FilterThreaded ==
    /\ pc = "loop"
    /\ todo = <<>>
    /\ section # "max"
    /\ LET kept == FilterNaN(Triple(tx, ty, tsdev))
       IN  IF kept.x = <<>>
           THEN /\ Raise("ValueError", "zip")
                /\ UNCHANGED localVars
           ELSE /\ tx' = kept.x /\ ty' = kept.y /\ tsdev' = kept.sdev
                /\ pc' = "sort"
                /\ UNCHANGED err
    /\ UNCHANGED <<envVars, section, listf, todo, parseVars, resultVars,
                   result2Vars, rsVars, images>>

\* Lines 45-46: the rows are sorted by x and returned.
SortThreaded ==
    /\ pc = "sort"
    /\ LET s == SortRows(Triple(tx, ty, tsdev))
       IN  tx' = s.x /\ ty' = s.y /\ tsdev' = s.sdev
    /\ pc' = "return"
    /\ UNCHANGED <<envVars, section, listf, todo, parseVars, resultVars,
                   result2Vars, rsVars, images, err>>

\* Line 93: the result is bound to x, y, sdev.
ReturnVarstore ==
    /\ pc = "return"
    /\ section = "varstore"
    /\ x' = tx /\ y' = ty /\ sdev' = tsdev
    /\ pc' = "plot_varstore"
    /\ UNCHANGED <<envVars, section, listf, todo, parseVars, localVars,
                   result2Vars, rsVars, images, err>>

\* Lines 48-58, called at line 94; min(x) of no rows is a ValueError.
PlotThreaded ==
    /\ pc = "plot_varstore"
    /\ IF x = <<>>
       THEN /\ Raise("ValueError", "plot")
            /\ UNCHANGED images
       ELSE /\ SaveFig(Img_varstoreThreaded)
            /\ pc' = "glob_readstore"
            /\ UNCHANGED err
    /\ UNCHANGED <<envVars, section, listf, todo, parseVars, localVars,
                   resultVars, result2Vars, rsVars>>

\* Line 98: the paths that do not contain "png".
NotPng(paths) == {p \in paths : ~Contains(p, S_png)}

\* Line 99: the paths that contain "Contig".
ContigOf(paths) == {p \in paths : Contains(p, S_Contig)}

\* Lines 97-100: both tests read the whole path, directory included; the
\* list of line 99 is in the set's iteration order.
GlobReadstore ==
    /\ pc = "glob_readstore"
    /\ LET kept == NotPng(GlobReadstoreAll)
       IN  /\ readstore_contig_files' \in Perms(ContigOf(kept))
           /\ readstore_files' = kept \ ContigOf(kept)
    /\ pc' = "call_random"
    /\ UNCHANGED <<envVars, section, listf, todo, parseVars, localVars,
                   resultVars, result2Vars, images, err>>

\* Line 102: the call on the set readstore_files, in its iteration order.
CallThreadedRandom ==
    /\ pc = "call_random"
    /\ \E order \in Perms(readstore_files) : Enter("random", order)
    /\ UNCHANGED <<envVars, parseVars, resultVars, result2Vars, rsVars, images, err>>

\* Line 102: the result is bound to x, y, sdev.
ReturnRandom ==
    /\ pc = "return"
    /\ section = "random"
    /\ x' = tx /\ y' = ty /\ sdev' = tsdev
    /\ pc' = "call_contig"
    /\ UNCHANGED <<envVars, section, listf, todo, parseVars, localVars,
                   result2Vars, rsVars, images, err>>

\* Line 103: the call on the list readstore_contig_files.
CallThreadedContig ==
    /\ pc = "call_contig"
    /\ Enter("contig", readstore_contig_files)
    /\ UNCHANGED <<envVars, parseVars, resultVars, result2Vars, rsVars, images, err>>

\* Line 103: the result is bound to x2, y2, sdev2.
ReturnContig ==
    /\ pc = "return"
    /\ section = "contig"
    /\ x2' = tx /\ y2' = ty /\ sdev2' = tsdev
    /\ pc' = "plot_readstore"
    /\ UNCHANGED <<envVars, section, listf, todo, parseVars, localVars,
                   resultVars, rsVars, images, err>>

\* Lines 105-115; min(x) is taken over the first series only.
PlotReadstore ==
    /\ pc = "plot_readstore"
    /\ IF x = <<>>
       THEN /\ Raise("ValueError", "plot")
            /\ UNCHANGED images
       ELSE /\ SaveFig(Img_readstoreThreaded)
            /\ pc' = "done"
            /\ UNCHANGED err
    /\ UNCHANGED <<envVars, section, listf, todo, parseVars, localVars,
                   resultVars, result2Vars, rsVars>>

Next ==
    \/ StartMaxResults
    \/ OpenFile
    \/ ReadLine
    \/ CloseFile
    \/ AppendRowMaxResults
    \/ AppendRowThreaded
    \/ SortMaxResults
    \/ PlotMaxResults
    \/ CallThreadedVarstore
    \/ FilterThreaded
    \/ SortThreaded
    \/ ReturnVarstore
    \/ PlotThreaded
    \/ GlobReadstore
    \/ CallThreadedRandom
    \/ ReturnRandom
    \/ CallThreadedContig
    \/ ReturnContig
    \/ PlotReadstore

Spec == Init /\ [][Next]_vars

(***************************************************************************)
(* The notions the properties are stated in.                               *)
(***************************************************************************)

HasColon(l) == \E i \in 1..Len(l) : l[i] = Colon

FirstColon(l) ==
    CHOOSE i \in 1..Len(l) : l[i] = Colon /\ \A j \in 1..(i - 1) : l[j] # Colon

\* The trimmed text before, and after, the first colon of a line.
KeyBeforeFirstColon(l) == Strip(SubSeq(l, 1, FirstColon(l) - 1))

ValueAfterFirstColon(l) == Strip(SubSeq(l, FirstColon(l) + 1, Len(l)))

\* Empty or whitespace only.
IsBlank(l) == \A i \in 1..Len(l) : l[i] \in Whitespace

\* A file with a line that lacks a colon.
Malformed(lines) == \E i \in 1..Len(lines) : ~HasColon(lines[i])

\* At least one line of the open file has been read: `line` is that line.
LineWasRead == pc \in {"read", "row"} /\ Len(fin) < Len(Lines(f))

ParseAborted == pc = "aborted" /\ err.at = "parse_file"

Threaded == section \in {"varstore", "random", "contig"}

ImageOrder == <<Img_varstoreMaxResults, Img_varstoreThreaded, Img_readstoreThreaded>>

IsPrefix(s, t) == Len(s) <= Len(t) /\ s = SubSeq(t, 1, Len(s))

Written(img) == \E i \in 1..Len(images) : images[i] = img

Pat_dotpng == <<".", "p", "n", "g">>

\* A file name of an image.
IsImageName(n) == EndsWith(n, Pat_dotpng)

\* The record a file parses to, and its threaded row.
DictOf(p) == ParseFile(Lines(p)).d

FileRow(p) == RowThreaded(DictOf(p))

\* The raw Sdev text of a file and the number it stands for.
RawSdev(p) == DictOf(p)[K_Sdev]

RawSdevValue(p) == ParseFloat(DropLast2(RawSdev(p))).v

Zero == Frac(0, 1)

\* The files of a list whose y is a number, in the list's order.
NumericFiles(fl) == LET Numeric(p) == ~IsNan(FileRow(p).y) IN SelectSeq(fl, Numeric)

\* out is rows sorted ascending by x, rows with equal x in their order in
\* rows, every row keeping its own y and sdev.
StableSortedPermutation(out, rows) ==
    /\ Len(out.x) = Len(rows)
    /\ \A i \in 1..(Len(out.x) - 1) : out.x[i] <= out.x[i + 1]
    /\ \E p \in [1..Len(rows) -> 1..Len(rows)] :
          /\ \A i, j \in 1..Len(rows) : p[i] = p[j] => i = j
          /\ \A i \in 1..Len(rows) :
                /\ out.x[i] = rows[p[i]].x
                /\ out.y[i] = rows[p[i]].y
                /\ out.sdev[i] = rows[p[i]].sdev
          /\ \A i, j \in 1..Len(rows) :
                (i < j /\ out.x[i] = out.x[j]) => p[i] < p[j]

RECURSIVE ExtractRows(_, _)
\* Lines 36-42 on a list of files: the rows, or the first exception.
ExtractRows(fl, acc) ==
    IF fl = <<>> THEN [ok |-> TRUE, kind |-> "none", t |-> acc]
    ELSE LET parsed == ParseFile(Lines(Head(fl)))
             r == RowThreaded(parsed.d)
         IN  IF ~parsed.ok THEN [ok |-> FALSE, kind |-> "ValueError", t |-> acc]
             ELSE IF ~r.ok THEN [ok |-> FALSE, kind |-> r.kind, t |-> acc]
             ELSE ExtractRows(Tail(fl), Triple(Append(acc.x, r.x), Append(acc.y, r.y),
                                               Append(acc.sdev, r.sdev)))

\* extract_arrays_threaded(listf) as a function of the list.
ExtractArraysThreaded(fl) ==
    LET rows == ExtractRows(fl, Triple(<<>>, <<>>, <<>>))
        kept == FilterNaN(rows.t)
    IN  IF ~rows.ok THEN rows
        ELSE IF kept.x = <<>>
        THEN [ok |-> FALSE, kind |-> "ValueError", t |-> kept]
        ELSE [ok |-> TRUE, kind |-> "none", t |-> SortRows(kept)]

(***************************************************************************)
(* The claims.                                                             *)
(***************************************************************************)

\* C1: parse_file splits a line on its first colon only: a line with one or
\* more colons never makes parsing fail, and once it is read the mapping
\* holds the trimmed text before the first colon as key and the trimmed text
\* after it (further colons included) as value.
CE_C1 ==
    /\ ParseAborted => ~HasColon(line)
    /\ (LineWasRead /\ HasColon(line)) =>
           /\ Has(d, KeyBeforeFirstColon(line))
           /\ d[KeyBeforeFirstColon(line)] = ValueAfterFirstColon(line)

\* C2: parse_file fails if and only if some non-blank line of the file has
\* no colon: a failed parse has such a line, a parse that returned has none,
\* and blank lines never make it fail.
CE_C2 ==
    /\ ParseAborted =>
           \E i \in 1..Len(Lines(f)) :
               ~IsBlank(Lines(f)[i]) /\ ~HasColon(Lines(f)[i])
    /\ pc = "row" =>
           \A i \in 1..Len(Lines(f)) :
               IsBlank(Lines(f)[i]) \/ HasColon(Lines(f)[i])

\* A record the threaded extractor has all it needs from, Mean/thread being
\* the y value: a thread count that is a non-zero int (or absent), a numeric
\* Mean/thread and a numeric Sdev.
CompleteWithMeanThread(dict) ==
    /\ NumThreads(dict).ok /\ NumThreads(dict).v # 0
    /\ Has(dict, K_MeanThread) /\ ParseFloat(DropLast2(dict[K_MeanThread])).ok
    /\ Has(dict, K_Sdev) /\ ParseFloat(DropLast2(dict[K_Sdev])).ok

\* C3: a file that has Mean/thread yields its row (y the value of
\* Mean/thread, err Sdev over numThreads) whether or not it has Mean:
\* appending the row of such a record never fails.
CE_C3 ==
    (pc = "aborted" /\ err.at = "row" /\ Threaded) => ~CompleteWithMeanThread(d)

\* An input file (not an image) matching one of the three consumed globs.
Consumed(n) ==
    /\ MatchVarstoreK(n) \/ MatchVarstore10K(n) \/ MatchReadstore(n)
    /\ ~IsImageName(n)

\* C4 as claimed: with a malformed file under any of the consumed globs, no
\* image is ever written.
CE_C4 ==
    (\E n \in DOMAIN fs : Consumed(n) /\ Malformed(fs[n])) => images = <<>>

\* C4 as amended: a malformed file stops the run in the section that parses
\* it, so that section's image and the later ones are never written: none at
\* all for varstore*K, not varstoreThreaded.png nor readstoreThreaded.png for
\* varstore10K*, not readstoreThreaded.png for a readstore* file whose path
\* does not contain "png".
Thm_C4 ==
    /\ (\E n \in DOMAIN fs : MatchVarstoreK(n) /\ Malformed(fs[n])) =>
           images = <<>>
    /\ (\E n \in DOMAIN fs : MatchVarstore10K(n) /\ Malformed(fs[n])) =>
           ~Written(Img_varstoreThreaded) /\ ~Written(Img_readstoreThreaded)
    /\ (\E n \in DOMAIN fs :
           MatchReadstore(n) /\ ~Contains(PathOf(n), S_png) /\ Malformed(fs[n])) =>
           ~Written(Img_readstoreThreaded)

\* A malformed readstore file aborted the run after two images were written.
Wit_C4 ==
    /\ ParseAborted
    /\ section \in {"random", "contig"}
    /\ Malformed(Lines(f))
    /\ images = <<Img_varstoreMaxResults, Img_varstoreThreaded>>

\* C5: the images are written in the order varstoreMaxResults.png,
\* varstoreThreaded.png, readstoreThreaded.png, each at most once and none
\* before its predecessor; an exception ends the run, and from then on no
\* step is taken and no image is written.
Thm_C5 ==
    /\ [](IsPrefix(images, ImageOrder))
    /\ [](err.kind # "none" => pc = "aborted")
    /\ [][err.kind # "none" => (images' = images /\ pc' = pc)]_vars

\* A run that wrote all three images.
Wit_C5 == pc = "done" /\ images = ImageOrder /\ err = NoError

\* The rows of the files of a list, in the list's order.
RowsOf(fl) == [i \in 1..Len(fl) |-> FileRow(fl[i])]

\* C6: what extract_arrays_threaded returns is three sequences of one
\* length, sorted ascending by x, a permutation of the rows of the files
\* whose y is a number that keeps each y and err with its x, rows of equal x
\* in the order of the input list.
Thm_C6 ==
    pc = "return" =>
        /\ Len(tx) = Len(ty) /\ Len(ty) = Len(tsdev)
        /\ StableSortedPermutation(Triple(tx, ty, tsdev), RowsOf(NumericFiles(listf)))

\* Three files given in the order x = 4, 2, 2 came back as 2, 2, 4 with the
\* two rows of x = 2 in input order.
Wit_C6 ==
    /\ pc = "return"
    /\ Len(listf) = 3
    /\ RowsOf(listf)[1].x > RowsOf(listf)[2].x
    /\ RowsOf(listf)[2].x = RowsOf(listf)[3].x
    /\ RowsOf(listf)[2].y # RowsOf(listf)[3].y
    /\ ty = <<RowsOf(listf)[2].y, RowsOf(listf)[3].y, RowsOf(listf)[1].y>>

\* C7: the rows with a NaN y are left out and change nothing else: what is
\* returned is what the extractor returns on the list without the NaN-y
\* files; the extractor never gets past its filter with no row left, and
\* fails there with the unpacking error exactly when no file of the list has
\* a numeric y.
Thm_C7 ==
    /\ pc = "return" =>
           ExtractArraysThreaded(NumericFiles(listf)) =
               [ok |-> TRUE, kind |-> "none", t |-> Triple(tx, ty, tsdev)]
    /\ (pc \in {"sort", "return"} /\ Threaded) =>
           (NumericFiles(listf) # <<>> /\ tx # <<>>)
    /\ (pc = "aborted" /\ err.at = "zip" /\ Threaded) =>
           (NumericFiles(listf) = <<>> /\ err.kind = "ValueError")
    /\ (pc = "loop" /\ todo = <<>> /\ Threaded /\ NumericFiles(listf) = <<>>) =>
           FilterNaN(Triple(tx, ty, tsdev)).x = <<>>

\* An extraction returned after dropping the row of a NaN-y file.
Wit_C7 ==
    /\ pc = "return"
    /\ Len(NumericFiles(listf)) < Len(listf)
    /\ Len(tx) = Len(NumericFiles(listf))

\* While the extractor's loop runs, row i is the row of file i of the list.
RowsAligned == Threaded /\ pc \in {"loop", "read", "row"}

\* Row i has the thread count of file i as x, and its err times that x is
\* the raw Sdev of file i.
OwnScaling ==
    /\ RowsAligned =>
           \A i \in 1..Len(tx) :
               /\ tx[i] = NumThreads(DictOf(listf[i])).v
               /\ FloatMul(tsdev[i], tx[i]) = RawSdevValue(listf[i])
    /\ pc = "return" =>
           \A i \in 1..Len(tx) :
               \E k \in 1..Len(listf) :
                   /\ tx[i] = NumThreads(DictOf(listf[k])).v
                   /\ ty[i] = FileRow(listf[k]).y
                   /\ FloatMul(tsdev[i], tx[i]) = RawSdevValue(listf[k])

\* C8 as claimed: err is the file's own Sdev over the file's own numThreads
\* (1 when absent), and two files with the same raw Sdev and different
\* numThreads have different err values.
CE_C8 ==
    /\ OwnScaling
    /\ RowsAligned =>
           \A i, j \in 1..Len(tx) :
               (RawSdev(listf[i]) = RawSdev(listf[j]) /\ tx[i] # tx[j]) =>
                   tsdev[i] # tsdev[j]

\* C8 as amended: the same, the err values differing when the common raw
\* Sdev is a number other than zero.
Thm_C8 ==
    /\ OwnScaling
    /\ RowsAligned =>
           \A i, j \in 1..Len(tx) :
               (/\ RawSdev(listf[i]) = RawSdev(listf[j])
                /\ tx[i] # tx[j]
                /\ ~IsNan(RawSdevValue(listf[i]))
                /\ RawSdevValue(listf[i]) # Zero) =>
                   tsdev[i] # tsdev[j]

\* Two files with the same non-zero raw Sdev and different thread counts
\* have both been read.
Wit_C8 ==
    /\ RowsAligned
    /\ \E i, j \in 1..Len(tx) :
          /\ RawSdev(listf[i]) = RawSdev(listf[j])
          /\ RawSdevValue(listf[i]) # Zero
          /\ tx[i] # tx[j]
          /\ tsdev[i] # tsdev[j]

\* The non-image files of the directory that match readstore*.
ReadstoreInputs == {n \in DOMAIN fs : MatchReadstore(n) /\ ~IsImageName(n)}

\* C9: the contiguous set is the readstore inputs whose name contains
\* Contig, the random set is the other readstore inputs, whatever the text
\* of the directory path.
CE_C9 ==
    pc = "call_random" =>
        /\ {readstore_contig_files[i] : i \in 1..Len(readstore_contig_files)} =
               {PathOf(n) : n \in {m \in ReadstoreInputs : Contains(m, S_Contig)}}
        /\ readstore_files =
               {PathOf(n) : n \in {m \in ReadstoreInputs : ~Contains(m, S_Contig)}}

\* C10: at most one input file is open at any time, and none is open outside
\* the reading of a file: not when the next file is opened, not when an image
\* is written, not after a parse error has ended the run.
Thm_C10 ==
    /\ Cardinality(handles) <= 1
    /\ pc = "read" => handles = {f}
    /\ pc # "read" => handles = {}

\* The second file of a list failed to parse and no handle is open.
Wit_C10 ==
    /\ ParseAborted
    /\ Len(listf) - Len(todo) >= 2
    /\ handles = {}

====
